---- MODULE Spec2Model ----
(***************************************************************************)
(* The weekly digest run of ai_safety_digest.py: main() drives the Slack   *)
(* reference collector, the Gmail newsletter collector, the per-reference  *)
(* document resolver, the digest producer call, the local save and the     *)
(* e-mail delivery.  The chat workspace, the mailbox and the remote        *)
(* documents are the environment; they are fixed when the run starts.     *)
(*                                                                         *)
(* A function of the program that can raise is an operator returning       *)
(* [exc |-> name of the exception or "none", ret |-> the returned value].  *)
(* Extracted document texts are represented by their length in            *)
(* characters, so '' is 0 and text[:n] is the minimum of the length and n. *)
(***************************************************************************)
EXTENDS Naturals, Sequences, FiniteSets, TLC

VARIABLES
    channels,        \* environment: the channel list the chat server returns
    slack_history,   \* environment: the channel's messages inside the window
    gmail_creds,     \* environment: TRUE iff GMAIL_CREDENTIALS_JSON is set
    mailbox,         \* environment: the labelled messages the mailbox query matches
    web,             \* environment: document id -> response of requests.get
    pc,              \* position of main()
    slack_urls,      \* main: slack_urls
    newsletters,     \* main: newsletters
    papers,          \* main: papers
    tmp_paper,       \* the file /tmp/temp_paper.pdf
    producer_calls,  \* the corpora handed to generate_digest, in call order
    digest,          \* main: digest
    digest_file,     \* the file /tmp/digest.txt
    send_result,     \* outcome of the SMTP delivery attempt
    crashed_at,      \* the step of main() an exception escaped from
    uncaught         \* the exception that escaped main()

vars == <<channels, slack_history, gmail_creds, mailbox, web, pc, slack_urls,
          newsletters, papers, tmp_paper, producer_calls, digest, digest_file,
          send_result, crashed_at, uncaught>>

env == <<channels, slack_history, gmail_creds, mailbox, web>>

----------------------------------------------------------------------------
(* Bounds of the environment *)

\* messages the chat server returns for one conversations_history call
PageLimit == 2
\* parts of a multi-part mailbox message
MaxParts == 2
\* messages of a mailbox listing
MaxMail == 2
\* references discovered beyond the per-run cap in the long histories
Overflow == 3

\* longest channel history: one message more than a page holds
MaxMsgs == PageLimit + 1

----------------------------------------------------------------------------
(* Program constants *)

MAX_PAPERS == 50
PDF_CONTENT_LIMIT == 100000
WEBPAGE_CONTENT_LIMIT == 50000

SLACK_CHANNEL_NAME == "papers-running-list"

None == "None"
NoError == "<no error key>"

Min(a, b) == IF a <= b THEN a ELSE b

Range(s) == {s[k] : k \in 1..Len(s)}

Ok(v) == [exc |-> "none", ret |-> v]
Raise(e, v) == [exc |-> e, ret |-> v]

----------------------------------------------------------------------------
(* References.  A URL is the string scheme + host + path + id + ".pdf" * ext; *)
(* a token of a message text is a URL or a plain word (scheme "").            *)

Url(scheme, host, path, id, ext) ==
    [scheme |-> scheme, host |-> host, path |-> path, id |-> id, ext |-> ext]

Word == Url("", "", "", 0, 0)

ArxivAbs(n)    == Url("https://", "arxiv.org", "/abs/", n, 0)
ArxivPdf(n)    == Url("https://", "arxiv.org", "/pdf/", n, 0)
ArxivPdfExt(n) == Url("https://", "arxiv.org", "/pdf/", n, 1)
ArxivList(n)   == Url("https://", "arxiv.org", "/list/", n, 0)
DirectPdf(n)   == Url("http://", "example.org", "/papers/", n, 1)
WebPage(n)     == Url("https://", "example.org", "/blog/", n, 0)

UrlForms == <<"abs", "web", "pdf", "arxiv_pdf", "arxiv_pdf_ext", "arxiv_list">>

UrlOfForm(form, n) ==
    CASE form = "abs" -> ArxivAbs(n)
      [] form = "web" -> WebPage(n)
      [] form = "pdf" -> DirectPdf(n)
      [] form = "arxiv_pdf" -> ArxivPdf(n)
      [] form = "arxiv_pdf_ext" -> ArxivPdfExt(n)
      [] OTHER -> ArxivList(n)

\* the n-th reference of a long history: the forms in rotation
NthUrl(n) == UrlOfForm(UrlForms[(n % Len(UrlForms)) + 1], n)

----------------------------------------------------------------------------
(* Reference Collector: ContentFetcher.fetch_slack_urls *)

\* for channel in channels['channels']: if channel['name'] == channel_name: ... break
RECURSIVE FindChannelId(_, _)
FindChannelId(chs, channel_name) ==
    IF chs = <<>> THEN None
    ELSE IF Head(chs).name = channel_name THEN Head(chs).id
    ELSE FindChannelId(Tail(chs), channel_name)

\* `not channel_id`
Falsy(channel_id) == channel_id \in {None, ""}

\* the server's answer to conversations_history(channel, oldest): the code passes
\* no cursor and no limit, so it is the first page of the window's messages
ConversationsHistory(history) == SubSeq(history, 1, Min(Len(history), PageLimit))

\* url_pattern: a match starts with http:// or https://
IsUrl(token) == token.scheme \in {"http://", "https://"}

\* re.findall(url_pattern, text)
FindAll(text) == SelectSeq(text, IsUrl)

\* message.get('text', '')
MessageText(message) == IF message.has_text THEN message.text ELSE <<>>

\* for message in result['messages']: urls.extend(re.findall(url_pattern, text))
RECURSIVE ExtractUrls(_)
ExtractUrls(messages) ==
    IF messages = <<>> THEN <<>>
    ELSE FindAll(MessageText(Head(messages))) \o ExtractUrls(Tail(messages))

\* a collector that keeps the last occurrence of a repeated reference
RECURSIVE RemoveDuplicatesLastWins(_, _, _)
RemoveDuplicatesLastWins(urls, seen, unique_urls) ==
    IF urls = <<>> THEN unique_urls
    ELSE LET url == Head(urls) IN
         IF url \notin Range(Tail(urls))
         THEN RemoveDuplicatesLastWins(Tail(urls), seen \cup {url}, Append(unique_urls, url))
         ELSE RemoveDuplicatesLastWins(Tail(urls), seen, unique_urls)

\* for url in urls: if url not in seen: seen.add(url); unique_urls.append(url)
RECURSIVE RemoveDuplicates(_, _, _)
RemoveDuplicates(urls, seen, unique_urls) ==
    IF urls = <<>> THEN unique_urls
    ELSE LET url == Head(urls) IN
         IF url \notin seen
         THEN RemoveDuplicates(Tail(urls), seen \cup {url}, Append(unique_urls, url))
         ELSE RemoveDuplicates(Tail(urls), seen, unique_urls)

\* list_resp, history_resp: the answers of conversations_list and
\* conversations_history, [ok |-> FALSE] when the call raises SlackApiError
fetch_slack_urls(channel_name, list_resp, history_resp) ==
    IF ~list_resp.ok THEN Raise("SlackApiError", <<>>)
    ELSE LET channel_id == FindChannelId(list_resp.channels, channel_name) IN
         IF Falsy(channel_id) THEN Ok(<<>>)
         ELSE IF ~history_resp.ok THEN Raise("SlackApiError", <<>>)
         ELSE Ok(RemoveDuplicates(ExtractUrls(history_resp.messages), {}, <<>>))

----------------------------------------------------------------------------
(* Newsletter Collector: ContentFetcher.fetch_gmail_newsletters *)

\* base64.urlsafe_b64decode(data).decode('utf-8') on the payload data of the model
B64DecodeUtf8(data) ==
    CASE data = "cGxhaW4gdGV4dA==" -> Ok("plain text")
      [] data = "PHA-aHRtbDwvcD4=" -> Ok("<p>html</p>")
      [] data = "__4=" -> Raise("UnicodeDecodeError", "")
      [] OTHER -> Raise("binascii.Error", "")

\* for part in payload['parts']: the first text/plain or text/html part whose
\* data is non-empty is decoded and returned; '' when the loop ends
RECURSIVE PartsLoop(_)
PartsLoop(parts) ==
    IF parts = <<>> THEN Ok("")
    ELSE LET part == Head(parts) IN
         IF part.mimeType = "text/plain"
         THEN IF part.data # "" THEN B64DecodeUtf8(part.data) ELSE PartsLoop(Tail(parts))
         ELSE IF part.mimeType = "text/html"
         THEN IF part.data # "" THEN B64DecodeUtf8(part.data) ELSE PartsLoop(Tail(parts))
         ELSE PartsLoop(Tail(parts))

_get_email_body(payload) ==
    IF payload.has_parts THEN PartsLoop(payload.parts)
    ELSE IF payload.data # "" THEN B64DecodeUtf8(payload.data)
    ELSE Ok("")

\* for header in full_msg['payload']['headers']: if header['name'] == 'Subject'
RECURSIVE FindSubject(_)
FindSubject(headers) ==
    IF headers = <<>> THEN ""
    ELSE IF Head(headers).name = "Subject" THEN Head(headers).value
    ELSE FindSubject(Tail(headers))

\* for msg in messages: messages().get(...).execute(), subject, body, append
RECURSIVE NewslettersLoop(_, _, _)
NewslettersLoop(messages, get_ok, acc) ==
    IF messages = <<>> THEN Ok(acc)
    ELSE IF ~get_ok THEN Raise("HttpError", <<>>)
    ELSE LET full_msg == Head(messages) IN
         IF ~full_msg.payload.has_headers THEN Raise("KeyError", <<>>)
         ELSE LET body == _get_email_body(full_msg.payload) IN
              IF body.exc # "none" THEN Raise(body.exc, <<>>)
              ELSE NewslettersLoop(Tail(messages), get_ok,
                       Append(acc, [subject |-> FindSubject(full_msg.payload.headers),
                                    body |-> body.ret,
                                    id |-> full_msg.id]))

\* list_resp: the answer of messages().list(...).execute(); get_ok: FALSE when
\* messages().get(...).execute() raises HttpError
fetch_gmail_newsletters(creds, list_resp, get_ok) ==
    IF ~creds THEN Ok(<<>>)
    ELSE IF ~list_resp.ok THEN Raise("HttpError", <<>>)
    ELSE NewslettersLoop(list_resp.messages, get_ok, <<>>)

----------------------------------------------------------------------------
(* Document Resolver: ContentFetcher.download_paper_content *)

NoFile == [exists |-> FALSE, content |-> <<>>]

\* requests.get(url, timeout=30): the remote answer for the document
RequestsGet(url) == web[url.id]

\* the exception requests.get / raise_for_status raise for a response
RequestException(response) ==
    CASE response.status = "timeout" -> "Timeout"
      [] response.status = "connection_error" -> "ConnectionError"
      [] response.status = "http_error" -> "HTTPError"
      [] OTHER -> "none"

\* str(e)
ErrorText(exc) ==
    CASE exc = "Timeout" -> "Read timed out. (read timeout=30)"
      [] exc = "ConnectionError" -> "Max retries exceeded with url"
      [] exc = "HTTPError" -> "404 Client Error: Not Found for url"
      [] exc = "PDFSyntaxError" -> "No /Root object! - Is this really a PDF?"
      [] OTHER -> exc

\* open(pdf_path, 'ab'): a write that keeps what the file held
WriteBinaryAppend(file, bytes) ==
    [exists |-> TRUE, content |-> Append(file.content, bytes)]

\* with open(pdf_path, 'wb') as f: f.write(response.content)
WriteBinary(file, bytes) == [exists |-> TRUE, content |-> <<bytes>>]

\* os.remove(pdf_path)
Remove(file) == NoFile

\* pdfplumber.open(pdf_path) succeeds iff the file holds a well-formed document
PdfOpens(file) == \A k \in 1..Len(file.content) : file.content[k].valid

\* for page in pdf.pages: text += page.extract_text() or ""  (the length of text)
RECURSIVE PagesText(_)
PagesText(content) ==
    IF content = <<>> THEN 0 ELSE Head(content).len + PagesText(Tail(content))

Success(url, type, content) ==
    [url |-> url, type |-> type, content |-> content, success |-> TRUE,
     error |-> NoError]

Failure(url, type, exc) ==
    [url |-> url, type |-> type, content |-> 0, success |-> FALSE,
     error |-> ErrorText(exc)]

Result(exc, ret, file) == [exc |-> exc, ret |-> ret, tmp |-> file]

\* the try block of _download_pdf (lines 167-190)
TryDownloadPdf(pdf_url, original_url, file) ==
    LET response == RequestsGet(pdf_url)
        written == WriteBinary(file, [valid |-> response.valid, len |-> response.len])
    IN  IF RequestException(response) # "none"
        THEN Result(RequestException(response), Failure(original_url, "pdf", ""), file)
        ELSE IF ~PdfOpens(written)
        THEN Result("PDFSyntaxError", Failure(original_url, "pdf", ""), written)
        ELSE Result("none",
                    Success(original_url, "pdf",
                            Min(PagesText(written.content), PDF_CONTENT_LIMIT)),
                    Remove(written))

\* _download_pdf without its except clause
UncaughtDownloadPdf(pdf_url, original_url, file) ==
    TryDownloadPdf(pdf_url, original_url, file)

\* _download_pdf returning the untruncated text
UntruncatedDownloadPdf(pdf_url, original_url, file) ==
    LET r == TryDownloadPdf(pdf_url, original_url, file) IN
    IF r.exc = "none"
    THEN Result("none", Success(original_url, "pdf", RequestsGet(pdf_url).len), r.tmp)
    ELSE Result("none", Failure(original_url, "pdf", r.exc), r.tmp)

\* except Exception as e: the failed outcome with error str(e)
_download_pdf(pdf_url, original_url, file) ==
    LET r == TryDownloadPdf(pdf_url, original_url, file) IN
    IF r.exc = "none" THEN r
    ELSE Result("none", Failure(original_url, "pdf", r.exc), r.tmp)

\* the try block of _fetch_webpage (lines 204-228); html.parser accepts any markup
TryFetchWebpage(url, file) ==
    LET response == RequestsGet(url) IN
    IF RequestException(response) # "none"
    THEN Result(RequestException(response), Failure(url, "webpage", ""), file)
    ELSE Result("none",
                Success(url, "webpage", Min(response.len, WEBPAGE_CONTENT_LIMIT)),
                file)

\* _fetch_webpage without its except clause
UncaughtFetchWebpage(url, file) == TryFetchWebpage(url, file)

_fetch_webpage(url, file) ==
    LET r == TryFetchWebpage(url, file) IN
    IF r.exc = "none" THEN r
    ELSE Result("none", Failure(url, "webpage", r.exc), r.tmp)

\* url + '.pdf'
AddPdfSuffix(url) == [url EXCEPT !.ext = @ + 1]

\* url.endswith('.pdf')
EndsWithPdf(url) == url.ext > 0

\* lines 146-152: the PDF locator of an arXiv reference
ArxivPdfUrl(url) ==
    IF url.path = "/abs/" THEN AddPdfSuffix([url EXCEPT !.path = "/pdf/"])
    ELSE IF url.path = "/pdf/" THEN (IF EndsWithPdf(url) THEN url ELSE AddPdfSuffix(url))
    ELSE url

download_paper_content(url, file) ==
    IF url.host = "arxiv.org" THEN _download_pdf(ArxivPdfUrl(url), url, file)
    ELSE IF EndsWithPdf(url) THEN _download_pdf(url, url, file)
    ELSE _fetch_webpage(url, file)

----------------------------------------------------------------------------
(* Delivery: EmailSender.send_digest *)

\* send_digest with an except clause that does not re-raise
SendDigestSwallowing(digest_content, smtp_ok) ==
    IF smtp_ok THEN Ok("sent") ELSE Ok("failed")

\* smtp_ok: FALSE when starttls, login or send_message raises; the except
\* clause prints and re-raises
send_digest(digest_content, smtp_ok) ==
    IF smtp_ok THEN Ok("sent") ELSE Raise("SMTPException", "failed")

----------------------------------------------------------------------------
(* The environments a run starts in *)

U1 == ArxivAbs(1)
U2 == WebPage(2)
U3 == DirectPdf(3)

Msg(text) == [has_text |-> TRUE, text |-> text]
NoTextMsg == [has_text |-> FALSE, text |-> <<>>]

SlackMessages ==
    {NoTextMsg, Msg(<<Word>>), Msg(<<U1, Word, U1>>), Msg(<<U2, U1>>), Msg(<<U3>>)}

Histories == UNION {[1..n -> SlackMessages] : n \in 0..MaxMsgs}

OtherChannel == [name |-> "general", id |-> "C01"]
TargetChannel == [name |-> SLACK_CHANNEL_NAME, id |-> "C02"]
ChannelLists == {<<OtherChannel>>, <<OtherChannel, TargetChannel>>}

OkDoc(valid, len) == [status |-> "ok", valid |-> valid, len |-> len]
Fail(status) == [status |-> status, valid |-> FALSE, len |-> 0]

TextLengths ==
    {0, WEBPAGE_CONTENT_LIMIT, WEBPAGE_CONTENT_LIMIT + 1,
     PDF_CONTENT_LIMIT, PDF_CONTENT_LIMIT + 1}

Responses ==
    {OkDoc(valid, len) : valid \in BOOLEAN, len \in TextLengths}
    \cup {Fail(status) : status \in {"timeout", "connection_error", "http_error"}}

CoreResponses == {OkDoc(TRUE, PDF_CONTENT_LIMIT + 1), OkDoc(FALSE, 0), Fail("timeout")}

PlainData == "cGxhaW4gdGV4dA=="
HtmlData == "PHA-aHRtbDwvcD4="
BadData == "__4="

Part(mimeType, data) == [mimeType |-> mimeType, data |-> data]

Parts ==
    {Part("text/plain", data) : data \in {"", PlainData, BadData}}
    \cup {Part("text/html", data) : data \in {"", HtmlData}}
    \cup {Part("image/png", BadData)}

SubjectHeader == [name |-> "Subject", value |-> "Weekly"]
FromHeader == [name |-> "From", value |-> "news@example.org"]

Payload(has_headers, headers, has_parts, parts, data) ==
    [has_headers |-> has_headers, headers |-> headers, has_parts |-> has_parts,
     parts |-> parts, data |-> data]

MultiPart(parts) == Payload(TRUE, <<FromHeader, SubjectHeader>>, TRUE, parts, "")
SinglePart(data) == Payload(TRUE, <<FromHeader, SubjectHeader>>, FALSE, <<>>, data)

Payloads ==
    {MultiPart(parts) : parts \in UNION {[1..n -> Parts] : n \in 0..MaxParts}}
    \cup {SinglePart(data) : data \in {"", PlainData, HtmlData, BadData}}
    \cup {Payload(TRUE, <<FromHeader>>, FALSE, <<>>, PlainData),
          Payload(FALSE, <<>>, FALSE, <<>>, PlainData)}

SimplePayloads ==
    {SinglePart(PlainData), SinglePart(HtmlData),
     MultiPart(<<Part("text/plain", PlainData), Part("text/html", HtmlData)>>)}

Mails(payloads) == [k \in 1..Len(payloads) |-> [id |-> k, payload |-> payloads[k]]]

MailLists == {Mails(ps) : ps \in UNION {[1..n -> SimplePayloads] : n \in 0..MaxMail}}

World(chs, history, creds, mails, remote) ==
    [channels |-> chs, slack_history |-> history, gmail_creds |-> creds,
     mailbox |-> mails, web |-> remote]

DefaultChannels == <<OtherChannel, TargetChannel>>
DefaultHistory == <<Msg(<<U2, U1>>)>>
DefaultMailbox == Mails(<<SinglePart(PlainData)>>)
AllRespond(response) == [k \in 1..3 |-> response]
DefaultWeb == AllRespond(OkDoc(TRUE, WEBPAGE_CONTENT_LIMIT))

\* every short channel history, with and without the channel
SlackWorlds ==
    {World(chs, history, TRUE, DefaultMailbox, DefaultWeb) :
        chs \in ChannelLists, history \in Histories}

\* every remote answer for one reference of each kind
WebWorlds ==
    {World(DefaultChannels, <<Msg(<<U1, U2, U3>>)>>, TRUE, DefaultMailbox, remote) :
        remote \in [1..3 -> Responses]}

\* every shape of one mailbox message, and short listings of well-formed ones
MailWorlds ==
    {World(DefaultChannels, DefaultHistory, TRUE, Mails(<<payload>>), DefaultWeb) :
        payload \in Payloads}
    \cup {World(DefaultChannels, DefaultHistory, TRUE, mails, DefaultWeb) :
        mails \in MailLists}

\* sources present or absent, empty or not, remote up or down
MixedWorlds ==
    {World(chs, history, creds, mails, remote) :
        chs \in ChannelLists, history \in {<<>>, DefaultHistory},
        creds \in BOOLEAN, mails \in {<<>>, DefaultMailbox},
        remote \in {DefaultWeb, AllRespond(Fail("timeout"))}}

\* histories around the per-run cap; the remote answers repeat with period 3
LongSizes == {MAX_PAPERS - 1, MAX_PAPERS, MAX_PAPERS + 1, MAX_PAPERS + Overflow}

LongWorlds ==
    {World(DefaultChannels, <<Msg([k \in 1..n |-> NthUrl(k)])>>, FALSE, <<>>,
           [k \in 1..n |-> pattern[(k % 3) + 1]]) :
        n \in LongSizes, pattern \in [1..3 -> CoreResponses]}

Worlds == SlackWorlds \cup WebWorlds \cup MailWorlds \cup MixedWorlds \cup LongWorlds

----------------------------------------------------------------------------
(* main() *)

Init ==
    /\ \E w \in Worlds :
          /\ channels = w.channels
          /\ slack_history = w.slack_history
          /\ gmail_creds = w.gmail_creds
          /\ mailbox = w.mailbox
          /\ web = w.web
    /\ pc = "fetch_slack"
    /\ slack_urls = <<>>
    /\ newsletters = <<>>
    /\ papers = <<>>
    /\ tmp_paper = NoFile
    /\ producer_calls = <<>>
    /\ digest = None
    /\ digest_file = [exists |-> FALSE, content |-> None]
    /\ send_result = "none"
    /\ crashed_at = "none"
    /\ uncaught = "none"

\* an exception leaves main(): the process ends with a traceback
Crash(step, exc) ==
    /\ pc' = "crashed"
    /\ crashed_at' = step
    /\ uncaught' = exc

\* a resolution loop over every discovered reference
AllRefs(urls) == urls

\* slack_urls[:50]
RefsToResolve(urls) == SubSeq(urls, 1, Min(Len(urls), MAX_PAPERS))

\* line 377: slack_urls = fetcher.fetch_slack_urls(slack_channel, days_back)
FetchSlackUrls ==
    /\ pc = "fetch_slack"
    /\ \E list_ok, history_ok \in BOOLEAN :
          LET r == fetch_slack_urls(SLACK_CHANNEL_NAME,
                       [ok |-> list_ok, channels |-> channels],
                       [ok |-> history_ok,
                        messages |-> ConversationsHistory(slack_history)])
          IN  IF r.exc = "none"
              THEN /\ slack_urls' = r.ret
                   /\ pc' = "fetch_gmail"
                   /\ UNCHANGED <<crashed_at, uncaught>>
              ELSE /\ Crash("fetch_slack", r.exc)
                   /\ UNCHANGED slack_urls
    /\ UNCHANGED <<env, newsletters, papers, tmp_paper, producer_calls, digest,
                   digest_file, send_result>>

\* line 380: newsletters = fetcher.fetch_gmail_newsletters(gmail_label, days_back)
FetchGmailNewsletters ==
    /\ pc = "fetch_gmail"
    /\ \E list_ok, get_ok \in BOOLEAN :
          LET r == fetch_gmail_newsletters(gmail_creds,
                       [ok |-> list_ok, messages |-> mailbox], get_ok)
          IN  IF r.exc = "none"
              THEN /\ newsletters' = r.ret
                   /\ pc' = "download"
                   /\ UNCHANGED <<crashed_at, uncaught>>
              ELSE /\ Crash("fetch_gmail", r.exc)
                   /\ UNCHANGED newsletters
    /\ UNCHANGED <<env, slack_urls, papers, tmp_paper, producer_calls, digest,
                   digest_file, send_result>>

\* lines 384-386: one iteration of the resolution loop
DownloadPaper ==
    /\ pc = "download"
    /\ Len(papers) < Len(RefsToResolve(slack_urls))
    /\ LET url == RefsToResolve(slack_urls)[Len(papers) + 1]
           r == download_paper_content(url, tmp_paper)
       IN  /\ tmp_paper' = r.tmp
           /\ IF r.exc = "none"
              THEN /\ papers' = Append(papers, r.ret)
                   /\ UNCHANGED <<pc, crashed_at, uncaught>>
              ELSE /\ Crash("download", r.exc)
                   /\ UNCHANGED papers
    /\ UNCHANGED <<env, slack_urls, newsletters, producer_calls, digest,
                   digest_file, send_result>>

\* line 388: the loop is over, the count of successes is printed
ReportProcessed ==
    /\ pc = "download"
    /\ Len(papers) >= Len(RefsToResolve(slack_urls))
    /\ pc' = "generate"
    /\ UNCHANGED <<env, slack_urls, newsletters, papers, tmp_paper, producer_calls,
                   digest, digest_file, send_result, crashed_at, uncaught>>

\* the texts the producer may return (the text blocks of the reply, joined)
DigestTexts == {"", "## Weekly digest"}

\* line 393: digest = generator.generate_digest(papers, newsletters); the prompt
\* is assembled from the corpus and messages.create may raise
GenerateDigest ==
    /\ pc = "generate"
    /\ producer_calls' = Append(producer_calls,
                                [papers |-> papers, newsletters |-> newsletters])
    /\ \/ \E text \in DigestTexts :
             /\ digest' = text
             /\ pc' = "save"
             /\ UNCHANGED <<crashed_at, uncaught>>
       \/ /\ Crash("generate", "APIError")
          /\ UNCHANGED digest
    /\ UNCHANGED <<env, slack_urls, newsletters, papers, tmp_paper, digest_file,
                   send_result>>

\* lines 396-397: with open('/tmp/digest.txt', 'w') as f: f.write(digest)
SaveDigest ==
    /\ pc = "save"
    /\ \/ /\ digest_file' = [exists |-> TRUE, content |-> digest]
          /\ pc' = "send"
          /\ UNCHANGED <<crashed_at, uncaught>>
       \/ /\ Crash("save", "OSError")
          /\ UNCHANGED digest_file
    /\ UNCHANGED <<env, slack_urls, newsletters, papers, tmp_paper, producer_calls,
                   digest, send_result>>

\* lines 402-406: sender = EmailSender(); sender.send_digest(digest); int() of a
\* malformed SMTP_PORT raises ValueError before any delivery attempt
SendDigest ==
    /\ pc = "send"
    /\ \/ \E smtp_ok \in BOOLEAN :
             LET r == send_digest(digest, smtp_ok) IN
             /\ send_result' = r.ret
             /\ IF r.exc = "none"
                THEN /\ pc' = "done"
                     /\ UNCHANGED <<crashed_at, uncaught>>
                ELSE Crash("send", r.exc)
       \/ /\ Crash("send", "ValueError")
          /\ UNCHANGED send_result
    /\ UNCHANGED <<env, slack_urls, newsletters, papers, tmp_paper, producer_calls,
                   digest, digest_file>>

Next ==
    \/ FetchSlackUrls
    \/ FetchGmailNewsletters
    \/ DownloadPaper
    \/ ReportProcessed
    \/ GenerateDigest
    \/ SaveDigest
    \/ SendDigest

Spec == Init /\ [][Next]_vars

\* main() is one sequential thread: a step that can be taken is taken
FairSpec == Spec /\ WF_vars(Next)

----------------------------------------------------------------------------
(* Properties *)

\* fetch_slack_urls has returned to main()
SlackReturned == pc # "fetch_slack" /\ crashed_at # "fetch_slack"

\* both collectors have returned to main()
CollectorsReturned == SlackReturned /\ pc # "fetch_gmail" /\ crashed_at # "fetch_gmail"

\* the digest producer has returned a digest to main()
ProducerReturned == pc \in {"save", "send", "done"} \/ crashed_at \in {"save", "send"}

\* the resolution loop has ended
LoopEnded == pc = "generate" \/ ProducerReturned \/ crashed_at = "generate"

ChannelExists == \E k \in 1..Len(channels) : channels[k].name = SLACK_CHANNEL_NAME

\* the references the collector extracted from the messages it was given
Extracted == ExtractUrls(ConversationsHistory(slack_history))

\* a reference of the structured-document kind
IsPdfRef(url) == url.host = "arxiv.org" \/ url.ext > 0

\* the fetch or the text extraction of the reference's document fails
ResolutionFails(url) ==
    \/ web[url.id].status # "ok"
    \/ IsPdfRef(url) /\ ~web[url.id].valid

CapOf(type) == IF type = "pdf" THEN PDF_CONTENT_LIMIT ELSE WEBPAGE_CONTENT_LIMIT

C2_OutcomeInvariant ==
    /\ WEBPAGE_CONTENT_LIMIT < PDF_CONTENT_LIMIT
    /\ \A k \in 1..Len(papers) :
          /\ ~papers[k].success => papers[k].content = 0
          /\ papers[k].success => papers[k].content <= CapOf(papers[k].type)

\* a run with a failed outcome and a truncated outcome of each kind
C2_Witness ==
    /\ \E k \in 1..Len(papers) : ~papers[k].success
    /\ \E k \in 1..Len(papers) :
          /\ papers[k].success /\ papers[k].type = "pdf"
          /\ web[slack_urls[k].id].len > PDF_CONTENT_LIMIT
    /\ \E k \in 1..Len(papers) :
          /\ papers[k].success /\ papers[k].type = "webpage"
          /\ web[slack_urls[k].id].len > WEBPAGE_CONTENT_LIMIT

\* C3: the outcomes are those of the first min(N, 50) collected references, in
\* order, and each is what resolving that reference alone (no earlier resolution,
\* no leftover of one) produces.
C3_CapOrderIndependence ==
    /\ Len(papers) <= Min(Len(slack_urls), MAX_PAPERS)
    /\ LoopEnded => Len(papers) = Min(Len(slack_urls), MAX_PAPERS)
    /\ \A k \in 1..Len(papers) :
          papers[k] = download_paper_content(slack_urls[k], NoFile).ret

\* more than 50 references collected, the loop over, and a successful
\* structured-document outcome right after one whose extraction failed
C3_Witness ==
    /\ pc = "generate"
    /\ Len(slack_urls) > MAX_PAPERS
    /\ Len(papers) = MAX_PAPERS
    /\ \E k \in 2..Len(papers) :
          /\ papers[k].success /\ papers[k].type = "pdf"
          /\ ~papers[k - 1].success /\ papers[k - 1].type = "pdf"
          /\ web[slack_urls[k - 1].id].status = "ok"

\* C4: after _download_pdf returns, with success or failure, the temporary file
\* /tmp/temp_paper.pdf no longer exists.
C4_TempFileReleased == ~tmp_paper.exists

\* C5: once the collector has returned for an existing channel, every reference
\* of every in-window message is among the collected references.
C5_AllInWindowScanned ==
    (SlackReturned /\ ChannelExists) =>
        Range(ExtractUrls(slack_history)) \subseteq Range(slack_urls)

\* position of the first occurrence of x in s
FirstIndex(s, x) ==
    CHOOSE n \in 1..Len(s) : s[n] = x /\ \A m \in 1..(n - 1) : s[m] # x

\* C6: the collector's output has no two equal references, as many entries as
\* the extracted sequence has distinct values, and the order of first occurrence.
C6_DedupFirstSeen ==
    (SlackReturned /\ ChannelExists) =>
        LET ex == Extracted
            first == [k \in 1..Len(slack_urls) |-> FirstIndex(ex, slack_urls[k])]
        IN  /\ Range(slack_urls) = Range(ex)
            /\ Len(slack_urls) = Cardinality(Range(ex))
            /\ Cardinality(Range(slack_urls)) = Len(slack_urls)
            /\ \A k \in 1..(Len(slack_urls) - 1) : first[k] < first[k + 1]

\* a reference repeated after another one was first seen in between
C6_Witness ==
    /\ SlackReturned /\ ChannelExists
    /\ Len(slack_urls) >= 2
    /\ LET ex == Extracted IN
       \E j, k, m \in 1..Len(ex) :
          /\ j < k /\ k < m
          /\ ex[j] = ex[m]
          /\ ex[j] # ex[k]

FirstWithData(parts, mimeType) ==
    LET hits == SelectSeq(parts, LAMBDA part : part.mimeType = mimeType /\ part.data # "")
    IN  IF hits = <<>> THEN "" ELSE B64DecodeUtf8(Head(hits).data).ret

\* the body the claim gives a multi-part message: plain text first, HTML second
PreferredBody(parts) ==
    IF FirstWithData(parts, "text/plain") # "" THEN FirstWithData(parts, "text/plain")
    ELSE FirstWithData(parts, "text/html")

Decodable(parts) ==
    \A k \in 1..Len(parts) :
        parts[k].data # "" => B64DecodeUtf8(parts[k].data).exc = "none"

\* C7: the body of a multi-part message is its first plain-text part with data,
\* wherever it sits; else its first HTML part with data; else ''.
C7_PlainTextPreferred ==
    \A k \in 1..Len(newsletters) :
        (mailbox[k].payload.has_parts /\ Decodable(mailbox[k].payload.parts)) =>
            newsletters[k].body = PreferredBody(mailbox[k].payload.parts)

\* C8: no failure of a collector or of the resolver escapes main().
C8_NoCollectorFailureUnwinds ==
    crashed_at \notin {"fetch_slack", "fetch_gmail", "download"}

C9_Safety ==
    /\ (SlackReturned /\ ~ChannelExists) => slack_urls = <<>>
    /\ (crashed_at = "fetch_slack" /\ ~ChannelExists) => uncaught = "SlackApiError"
    /\ (CollectorsReturned /\ ~gmail_creds) => newsletters = <<>>
    /\ ~gmail_creds => crashed_at # "fetch_gmail"
    /\ Len(producer_calls) <= 1
    /\ Len(producer_calls) = 1 =>
          producer_calls[1] = [papers |-> papers, newsletters |-> newsletters]

\* C9: with the channel missing the collector returns the empty sequence (only a
\* failing channel-list call raises); with mailbox credentials absent the
\* newsletter collector returns the empty sequence and never raises; and once
\* both collectors have returned the digest producer is invoked, exactly once,
\* with the corpus of the run, whatever resolutions fail.
C9_SourcesNonFatal ==
    /\ []C9_Safety
    /\ CollectorsReturned ~> (Len(producer_calls) = 1)

\* the producer invoked with an empty corpus: no channel, no credentials
C9_Witness ==
    /\ ~ChannelExists /\ ~gmail_creds
    /\ Len(producer_calls) = 1
    /\ producer_calls[1] = [papers |-> <<>>, newsletters |-> <<>>]

\* C10: a delivery attempt finds the digest already written to /tmp/digest.txt
\* and returned by the producer; a producer failure leaves no file and no
\* attempt; a delivery failure keeps the file and ends main() with the exception.
C10_SavedBeforeDelivery ==
    /\ send_result # "none" =>
          /\ ProducerReturned
          /\ digest_file = [exists |-> TRUE, content |-> digest]
    /\ crashed_at = "generate" => (~digest_file.exists /\ send_result = "none")
    /\ send_result = "failed" => (pc = "crashed" /\ uncaught = "SMTPException")
    /\ pc = "done" => send_result = "sent"

\* a delivery failure after the digest was saved
C10_Witness ==
    /\ send_result = "failed"
    /\ crashed_at = "send"
    /\ digest_file.exists

====
